---- MODULE Spec2Model ----
(***************************************************************************)
(* A model of the stock-screener dashboard's client-side controllers:     *)
(*   Home       (frontend/src/app/page.tsx, lines 11-117): the filter      *)
(*              state, the ranked-list fetch, the 5-minute refresh timer   *)
(*              and the single-quote fetch;                                *)
(*   SearchBar  (frontend/src/app/page.tsx, lines 128-195): the debounced  *)
(*              symbol lookup and the selection of a result;               *)
(*   api.ts     the three requests (getTop10, getSymbols, getQuote);       *)
(*   the theme script (unnamed/part_000): the light/dark toggle and its    *)
(*              persistence in localStorage.                               *)
(* The program is single-threaded: every event handler, timer callback and *)
(* promise continuation runs to its next await without interleaving, so    *)
(* each is one action.  A React state update, the re-render it causes and  *)
(* the effects of that render are part of the action of the handler that   *)
(* made the update.                                                        *)
(***************************************************************************)
EXTENDS Integers, Sequences, FiniteSets, TLC

VARIABLES
    phase,          \* "init" (rendered, effects not yet run) | "mounted" | "unmounted"
    filters,        \* Home: useState<Top10Params>
    top10,          \* Home: useState<Top10Item[]>
    asof,           \* Home: useState<string>; a response's asof is its server time
    loading,        \* Home: useState(false)
    error,          \* Home: useState<string | null>
    selectedQuote,  \* Home: useState<Quote | null>
    reqs,           \* every getTop10 request issued, in issue order, with its state
    intervals,      \* the armed setInterval timers, each with the closure it calls
    gen,            \* number of fetchTop10 closures created (useCallback identity)
    quotes,         \* every getQuote request issued, in issue order
    query,          \* SearchBar: useState('')
    results,        \* SearchBar: useState<Symbol[]>
    isOpen,         \* SearchBar: useState(false)
    sLoading,       \* SearchBar: useState(false) (its own loading flag)
    timers,         \* the pending setTimeout timers of the debounce
    lookups,        \* every getSymbols request issued, in issue order
    sinceChange,    \* ms elapsed since the query text last changed (saturates)
    burst,          \* non-empty text changes of the current burst (saturates)
    dataTheme,      \* theme script: the data-theme attribute of <html>
    stored,         \* theme script: localStorage item 'theme'
    writes,         \* theme script: the values of the setItem calls, in order
    loaded          \* theme script: DOMContentLoaded has fired in this document

homeVars   == <<filters, top10, asof, loading, error, reqs, intervals, gen>>
quoteVars  == <<selectedQuote, quotes>>
searchVars == <<query, results, isOpen, sLoading, timers, lookups, sinceChange, burst>>
themeVars  == <<dataTheme, stored, writes, loaded>>
screenVars == <<phase, homeVars, quoteVars, searchVars>>
vars == <<screenVars, themeVars>>

----------------------------------------------------------------------------
(* Bounds of the model *)

\* Ranked-list requests issued in one behaviour.
MaxReq == 3
\* Symbol lookups issued in one behaviour.
MaxLookups == 2
\* Single-quote requests issued in one behaviour.
MaxQuotes == 2
\* Time advances in steps of at most TickMs milliseconds.
TickMs == 100
\* The count of the changes of one burst saturates at MaxBurst.
MaxBurst == 2
\* localStorage writes of the theme script in one behaviour.
MaxWrites == 5

----------------------------------------------------------------------------
(* Values *)

\* An optional field: << >> is undefined/null, <<v>> is the value v.
None == << >>
Some(v) == <<v>>
IsSet(o) == o # None
Val(o) == o[1]

Keys == {"market", "min_value", "min_chg_pct", "max_chg_pct", "min_price",
         "max_price", "sort_by", "account_size", "risk_pct", "stop_pct", "cap_pct"}

\* Keys whose values are strings; the others hold numbers.
StringKeys == {"market", "sort_by"}

\* The initial FilterState.  Fractions are held in percent (0.01 = 1).
InitialFilters ==
    [k \in Keys |->
        CASE k = "market"   -> Some("ALL")
          [] k = "sort_by"  -> Some("value")
          [] k = "risk_pct" -> Some(1)
          [] k = "stop_pct" -> Some(3)
          [] k = "cap_pct"  -> Some(10)
          [] OTHER          -> None]

\* The edits the filter panels make in this model: <<key, new value>>.
FilterEdits ==
    {<<"market", Some("ALL")>>, <<"market", Some("KOSPI")>>,
     <<"account_size", Some(10000000)>>}

NULL == "null"
ErrorMessage == "failed-to-load"
NoAsof == 0

----------------------------------------------------------------------------
(* api.ts: getTop10 *)

\* A builder that tests every field for truthiness: 0 is dropped as "" is.
Emitted_Truthy(p, k) ==
    IF k \in StringKeys THEN IsSet(p[k]) /\ Val(p[k]) # ""
                         ELSE IsSet(p[k]) /\ Val(p[k]) # 0

\* A string is truthy when it is set and not empty (if (params.market) ...);
\* a number is emitted when it is not undefined.
Emitted(p, k) ==
    IF k \in StringKeys THEN IsSet(p[k]) /\ Val(p[k]) # "" ELSE IsSet(p[k])

\* The search parameters getTop10 builds: one entry per emitted key.
QueryOf(p) == [k \in {j \in Keys : Emitted(p, j)} |-> Val(p[k])]

\* How a getTop10 call can end at the network: a response with a success
\* status and a JSON body, no response, a non-success status, a body that is
\* not JSON.
FailKinds == {"network", "http", "json"}

\* getTop10 rejects when fetch rejects, when !response.ok and when
\* response.json() rejects; otherwise it resolves with the body.
GetTop10Rejects(net) == net \in FailKinds

\* The ranking service (external): the rows it ranks for a query.
Ranking(q) ==
    IF "market" \in DOMAIN q /\ q["market"] = "KOSPI"
    THEN <<[rank |-> 1, code |-> "005930", market |-> "KOSPI"]>>
    ELSE <<[rank |-> 1, code |-> "005930", market |-> "KOSPI"],
           [rank |-> 2, code |-> "035720", market |-> "KOSDAQ"]>>

NoResp == [asof |-> NoAsof, items |-> << >>]

\* The body the service sends for the i-th request: its server time is i.
Top10Response(i, q) == [asof |-> i, items |-> Ranking(q)]

----------------------------------------------------------------------------
(* Home: the ranked list *)

Pending(i) == reqs[i].st = "pending"
InFlight == {i \in 1..Len(reqs) : Pending(i)}

\* A fetchTop10 that does not clear the error.
fetchTop10_KeepError(params, trig, live) ==
    /\ reqs' = Append(reqs, [params |-> params, query |-> QueryOf(params),
                             trig |-> trig, st |-> "pending", resp |-> NoResp])
    /\ loading' = IF live THEN TRUE ELSE loading
    /\ UNCHANGED <<error, top10, asof>>

\* fetchTop10 up to its await: setLoading(true), setError(null), and the
\* request built from the filters its closure captured.  A state setter of
\* an unmounted component does nothing (live = FALSE).
fetchTop10(params, trig, live) ==
    /\ reqs' = Append(reqs, [params |-> params, query |-> QueryOf(params),
                             trig |-> trig, st |-> "pending", resp |-> NoResp])
    /\ loading' = IF live THEN TRUE ELSE loading
    /\ error' = IF live THEN NULL ELSE error
    /\ UNCHANGED <<top10, asof>>

\* A cleanup that clears nothing.
ClearInterval_Leak(ivs, g) == ivs

\* The cleanup of the auto-refresh effect: clearInterval of the timer that
\* the effect run for closure g armed.
ClearInterval(ivs, g) == {t \in ivs : t.gen # g}

\* An effect re-run that arms the new timer without clearing the old one.
AutoRefreshEffect_KeepOld(ivs, oldGen, newGen, params) ==
    ivs \cup {[gen |-> newGen, params |-> params]}

\* The auto-refresh effect re-run for a new closure: the previous run's
\* cleanup, then setInterval(fetchTop10, 5 * 60 * 1000).
AutoRefreshEffect(ivs, oldGen, newGen, params) ==
    ClearInterval(ivs, oldGen) \cup {[gen |-> newGen, params |-> params]}

\* The first effects after the first render: fetchTop10() and setInterval.
MountEffects ==
    /\ phase = "init"
    /\ phase' = "mounted"
    /\ fetchTop10(filters, "mount", TRUE)
    /\ intervals' = intervals \cup {[gen |-> gen, params |-> filters]}
    /\ UNCHANGED <<filters, gen, quoteVars, searchVars>>
    /\ UNCHANGED themeVars

\* FilterPanel.handleChange / RiskInputPanel.handleChange: onChange of a new
\* object {...filters, [key]: value}.  The new object makes a new fetchTop10
\* closure, so both effects keyed on it run again.
FilterChange(k, v) ==
    /\ phase = "mounted"
    /\ Len(reqs) < MaxReq
    /\ filters' = [filters EXCEPT ![k] = v]
    /\ gen' = gen + 1
    /\ fetchTop10(filters', "filter", TRUE)
    /\ intervals' = AutoRefreshEffect(intervals, gen, gen', filters')
    /\ UNCHANGED <<phase, quoteVars, searchVars>>
    /\ UNCHANGED themeVars

\* A refresh that is skipped when the same query is already in flight.
ClickRefresh_Dedup ==
    /\ phase = "mounted"
    /\ ~loading
    /\ Len(reqs) < MaxReq
    /\ \A i \in InFlight : reqs[i].query # QueryOf(filters)
    /\ fetchTop10(filters, "manual", TRUE)
    /\ UNCHANGED <<phase, filters, gen, intervals, quoteVars, searchVars>>
    /\ UNCHANGED themeVars

\* A click on the refresh button: onClick={fetchTop10} disabled={loading}.
\* A disabled button dispatches no click, so the handler runs only when
\* loading is false.
ClickRefresh ==
    /\ phase = "mounted"
    /\ ~loading
    /\ Len(reqs) < MaxReq
    /\ fetchTop10(filters, "manual", TRUE)
    /\ UNCHANGED <<phase, filters, gen, intervals, quoteVars, searchVars>>
    /\ UNCHANGED themeVars

\* The interval timer t fires and calls the fetchTop10 it was armed with.
IntervalFire(t) ==
    /\ t \in intervals
    /\ Len(reqs) < MaxReq
    /\ fetchTop10(t.params, "timer", phase = "mounted")
    /\ UNCHANGED <<phase, filters, gen, intervals, quoteVars, searchVars>>
    /\ UNCHANGED themeVars

\* The i-th request resolves: the try block after the await, then finally.
Top10Resolve(i) ==
    /\ i \in InFlight
    /\ LET resp == Top10Response(i, reqs[i].query) IN
        /\ reqs' = [reqs EXCEPT ![i].st = "ok", ![i].resp = resp]
        /\ IF phase = "mounted"
           THEN /\ top10' = resp.items
                /\ asof' = resp.asof
                /\ loading' = FALSE
           ELSE UNCHANGED <<top10, asof, loading>>
    /\ UNCHANGED <<phase, filters, error, gen, intervals, quoteVars, searchVars>>
    /\ UNCHANGED themeVars

\* A catch block that keeps the list.
Top10Reject_KeepList(i, net) ==
    /\ i \in InFlight
    /\ GetTop10Rejects(net)
    /\ reqs' = [reqs EXCEPT ![i].st = net]
    /\ IF phase = "mounted"
       THEN /\ error' = ErrorMessage
            /\ loading' = FALSE
            /\ UNCHANGED top10
       ELSE UNCHANGED <<error, top10, loading>>
    /\ UNCHANGED <<phase, filters, asof, gen, intervals, quoteVars, searchVars>>
    /\ UNCHANGED themeVars

\* The i-th request rejects: the catch block, then finally.
Top10Reject(i, net) ==
    /\ i \in InFlight
    /\ GetTop10Rejects(net)
    /\ reqs' = [reqs EXCEPT ![i].st = net]
    /\ IF phase = "mounted"
       THEN /\ error' = ErrorMessage
            /\ top10' = << >>
            /\ loading' = FALSE
       ELSE UNCHANGED <<error, top10, loading>>
    /\ UNCHANGED <<phase, filters, asof, gen, intervals, quoteVars, searchVars>>
    /\ UNCHANGED themeVars

\* What Top10Table renders in the table region.
TableRegion ==
    IF loading THEN "spinner" ELSE IF Len(top10) = 0 THEN "empty" ELSE "table"

\* The fetch status, which the code holds as loading / error / asof.
Status ==
    IF loading THEN "loading"
    ELSE IF error # NULL THEN "error"
    ELSE IF asof = NoAsof THEN "idle" ELSE "success"

\* Home renders the error banner: {error && (...)}.
ErrorBannerShown == error # NULL

\* A risk view that is enabled by any set account size.
showRisk_AnySet == IsSet(filters["account_size"])

\* const showRisk = filters.account_size !== undefined && filters.account_size > 0
showRisk == IsSet(filters["account_size"]) /\ Val(filters["account_size"]) > 0

\* Top10Table renders the three sizing columns (stop price, max shares, max
\* investment) in the table, when its showRisk prop is true.
RiskColumnsShown == TableRegion = "table" /\ showRisk

----------------------------------------------------------------------------
(* RiskInputPanel: the figures it computes from the filters *)

\* A fraction f is held as f * SCALE, in percent (0.01 = 1).
SCALE == 100

\* A number is truthy when it is not 0 (the inputs never store NaN: an empty
\* or unparsable text is stored as undefined).
Truthy(o) == IsSet(o) /\ Val(o) # 0

\* Math.round(n / d) for d > 0: the nearest integer, a half rounded up.
Round(n, d) == (2 * n + d) \div (2 * d)

\* The allowed-loss line: account_size && risk_pct
\*   ? Math.round(account_size * risk_pct) : '-'
AllowedLossPreview(p) ==
    IF Truthy(p["account_size"]) /\ Truthy(p["risk_pct"])
    THEN Some(Round(Val(p["account_size"]) * Val(p["risk_pct"]), SCALE))
    ELSE None

\* The max-investment line: account_size && cap_pct
\*   ? Math.round(account_size * cap_pct) : '-'
MaxInvestmentPreview(p) ==
    IF Truthy(p["account_size"]) /\ Truthy(p["cap_pct"])
    THEN Some(Round(Val(p["account_size"]) * Val(p["cap_pct"]), SCALE))
    ELSE None

\* The prices of ranked rows (Top10Item.price) in this model.
EntryPrices == {10000, 30000}

----------------------------------------------------------------------------
(* api.ts: getSymbols, getQuote *)

\* The debounce delay of the SearchBar effect, in ms.
DEBOUNCE_MS == 300
\* symbols.slice(0, SLICE_END)
SLICE_END == 10

\* The texts typed into the search input in this model.
Texts == {"", "A", "AB"}

\* The sizes of the lists the symbol service returns in this model.
HitCounts == {0, 2, 11}

CodeTable == <<"000001", "000002", "000003", "000004", "000005", "000006",
               "000007", "000008", "000009", "000010", "000011">>

\* The symbol service (external): the first n symbols matching the text q,
\* in its order.  Their names start with q.
SymbolsResponse(q, n) ==
    [k \in 1..n |-> [code |-> CodeTable[k],
                     name |-> q \o "-" \o CodeTable[k],
                     market |-> IF k % 2 = 1 THEN "KOSPI" ELSE "KOSDAQ"]]

\* A slice that keeps the whole array.
Slice_All(seq, n) == seq

\* Array.prototype.slice(0, n)
Slice(seq, n) == SubSeq(seq, 1, IF Len(seq) < n THEN Len(seq) ELSE n)

\* getSymbols and getQuote reject as getTop10 does: fetch rejects, the
\* status is not ok, or the body is not JSON.
GetSymbolsRejects(net) == net \in FailKinds
GetQuoteRejects(net) == net \in FailKinds

\* The quote service (external): the quote of a code.
QuoteOf(code) == [code |-> code]

----------------------------------------------------------------------------
(* SearchBar *)

\* `${symbol.name} (${symbol.code})`
SelectedText(symbol) == symbol.name \o " (" \o symbol.code \o ")"

\* The result list is rendered when isOpen && results.length > 0.
ListShown == isOpen /\ Len(results) > 0

\* A cleanup that clears nothing.
ClearTimeout_Leak(ts, q) == ts

\* The cleanup of the effect run for query text q: clearTimeout(timer).
ClearTimeout(ts, q) == {t \in ts : t.q # q}

\* The timers after the effect re-runs for a query that changed from old to
\* new: the previous run's cleanup, then, for a non-empty text, setTimeout.
SearchEffectTimers(ts, old, new) ==
    IF Len(new) < 1
    THEN ClearTimeout(ts, old)
    ELSE ClearTimeout(ts, old) \cup {[q |-> new, left |-> DEBOUNCE_MS]}

\* An effect that keeps the results for an empty text.
SearchEffectResults_Keep(res, new) == res

\* The results after the effect re-runs: setResults([]) for an empty text.
SearchEffectResults(res, new) == IF Len(new) < 1 THEN << >> ELSE res

\* The length of the burst after a change to text: a change to a non-empty
\* text less than DEBOUNCE_MS after the previous one continues the burst.
BurstAfter(text) ==
    IF text = "" THEN 0
    ELSE IF burst > 0 /\ sinceChange < DEBOUNCE_MS
         THEN (IF burst < MaxBurst THEN burst + 1 ELSE MaxBurst)
         ELSE 1

\* setQuery(text) and the effect keyed on [query].  React re-renders, and
\* re-runs the effect, only when the text differs from the current one.
SetQuery(text) ==
    /\ query' = text
    /\ IF text = query
       THEN UNCHANGED <<timers, results, sinceChange, burst>>
       ELSE /\ timers' = SearchEffectTimers(timers, query, text)
            /\ results' = SearchEffectResults(results, text)
            /\ sinceChange' = 0
            /\ burst' = BurstAfter(text)

\* onChange of the input: the user changes the text.
QueryChange(text) ==
    /\ phase = "mounted"
    /\ text # query
    /\ text # "" => Len(lookups) < MaxLookups
    /\ SetQuery(text)
    /\ UNCHANGED <<phase, homeVars, quoteVars, isOpen, sLoading, lookups>>
    /\ UNCHANGED themeVars

MinLeft == CHOOSE m \in {t.left : t \in timers} : \A t \in timers : m <= t.left

\* Time passes: at most TickMs, and not past the moment a timer is due.
Tick ==
    /\ phase = "mounted"
    /\ timers # {} \/ sinceChange < DEBOUNCE_MS
    /\ \A t \in timers : t.left > 0
    /\ LET d == IF timers # {} /\ MinLeft < TickMs THEN MinLeft ELSE TickMs
           s == sinceChange + d
       IN /\ timers' = {[t EXCEPT !.left = t.left - d] : t \in timers}
          /\ sinceChange' = IF s > DEBOUNCE_MS THEN DEBOUNCE_MS ELSE s
    /\ UNCHANGED <<phase, homeVars, quoteVars, query, results, isOpen, sLoading, lookups, burst>>
    /\ UNCHANGED themeVars

\* The debounce timer t is due: its callback runs up to the await:
\* setLoading(true) and getSymbols(query) with the text of its closure.
TimerFire(t) ==
    /\ t \in timers
    /\ t.left = 0
    /\ Len(lookups) < MaxLookups
    /\ timers' = timers \ {t}
    /\ sLoading' = TRUE
    /\ lookups' = Append(lookups, [q |-> t.q, st |-> "pending", hits |-> 0])
    /\ UNCHANGED <<phase, homeVars, quoteVars, query, results, isOpen, sinceChange, burst>>
    /\ UNCHANGED themeVars

LookupPending == {i \in 1..Len(lookups) : lookups[i].st = "pending"}

\* The i-th lookup resolves with n symbols: setResults(symbols.slice(0, 10)),
\* setIsOpen(true), then finally setLoading(false).
LookupResolve(i, n) ==
    /\ i \in LookupPending
    /\ lookups' = [lookups EXCEPT ![i].st = "ok", ![i].hits = n]
    /\ IF phase = "mounted"
       THEN /\ results' = Slice(SymbolsResponse(lookups[i].q, n), SLICE_END)
            /\ isOpen' = TRUE
            /\ sLoading' = FALSE
       ELSE UNCHANGED <<results, isOpen, sLoading>>
    /\ UNCHANGED <<phase, homeVars, quoteVars, query, timers, sinceChange, burst>>
    /\ UNCHANGED themeVars

\* A catch block that empties and closes the list.
LookupReject_Clear(i, net) ==
    /\ i \in LookupPending
    /\ GetSymbolsRejects(net)
    /\ lookups' = [lookups EXCEPT ![i].st = "rejected"]
    /\ sLoading' = IF phase = "mounted" THEN FALSE ELSE sLoading
    /\ results' = << >>
    /\ isOpen' = FALSE
    /\ UNCHANGED <<phase, homeVars, quoteVars, query, timers, sinceChange, burst>>
    /\ UNCHANGED themeVars

\* The i-th lookup rejects: console.error, then finally setLoading(false).
LookupReject(i, net) ==
    /\ i \in LookupPending
    /\ GetSymbolsRejects(net)
    /\ lookups' = [lookups EXCEPT ![i].st = "rejected"]
    /\ sLoading' = IF phase = "mounted" THEN FALSE ELSE sLoading
    /\ UNCHANGED <<phase, homeVars, quoteVars, query, results, isOpen, timers, sinceChange, burst>>
    /\ UNCHANGED themeVars

\* onFocus of the input: results.length > 0 && setIsOpen(true).
Focus ==
    /\ phase = "mounted"
    /\ Len(results) > 0
    /\ isOpen' = TRUE
    /\ UNCHANGED <<phase, homeVars, quoteVars, query, results, sLoading, timers, lookups, sinceChange, burst>>
    /\ UNCHANGED themeVars

\* A handler that asks for the quote of a fixed code.
handleSymbolSelect_WrongCode(symbol) ==
    quotes' = Append(quotes, [code |-> CodeTable[1], st |-> "pending"])

\* Home.handleSymbolSelect up to its await: getQuote(symbol.code).
handleSymbolSelect(symbol) ==
    quotes' = Append(quotes, [code |-> symbol.code, st |-> "pending"])

\* The rows of a rendered list of n results that are clicked in this model.
PickRows(n) == {1, n}

\* SearchBar.handleSelect: a click on the k-th row of the rendered list.
handleSelect(k) ==
    /\ phase = "mounted"
    /\ ListShown
    /\ k \in PickRows(Len(results))
    /\ Len(quotes) < MaxQuotes
    /\ Len(lookups) < MaxLookups
    /\ SetQuery(SelectedText(results[k]))
    /\ isOpen' = FALSE
    /\ handleSymbolSelect(results[k])
    /\ UNCHANGED <<phase, homeVars, selectedQuote, sLoading, lookups>>
    /\ UNCHANGED themeVars

QuotePending == {i \in 1..Len(quotes) : quotes[i].st = "pending"}

\* The i-th quote request resolves: setSelectedQuote(quote).
QuoteResolve(i) ==
    /\ i \in QuotePending
    /\ quotes' = [quotes EXCEPT ![i].st = "ok"]
    /\ selectedQuote' = IF phase = "mounted"
                        THEN Some(QuoteOf(quotes[i].code)) ELSE selectedQuote
    /\ UNCHANGED <<phase, homeVars, searchVars>>
    /\ UNCHANGED themeVars

\* A catch block that closes the quote card.
QuoteReject_Clear(i, net) ==
    /\ i \in QuotePending
    /\ GetQuoteRejects(net)
    /\ quotes' = [quotes EXCEPT ![i].st = "rejected"]
    /\ selectedQuote' = None
    /\ UNCHANGED <<phase, homeVars, searchVars>>
    /\ UNCHANGED themeVars

\* The i-th quote request rejects: the catch block logs and returns.
QuoteReject(i, net) ==
    /\ i \in QuotePending
    /\ GetQuoteRejects(net)
    /\ quotes' = [quotes EXCEPT ![i].st = "rejected"]
    /\ UNCHANGED <<phase, homeVars, selectedQuote, searchVars>>
    /\ UNCHANGED themeVars

\* StockCard onClose: setSelectedQuote(null).
CloseCard ==
    /\ phase = "mounted"
    /\ IsSet(selectedQuote)
    /\ selectedQuote' = None
    /\ UNCHANGED <<phase, homeVars, quotes, searchVars>>
    /\ UNCHANGED themeVars

----------------------------------------------------------------------------
(* The screen as a whole *)

\* Home unmounts, and SearchBar with it: the cleanups of the effects run,
\* clearInterval(interval) and clearTimeout(timer).
Unmount ==
    /\ phase = "mounted"
    /\ phase' = "unmounted"
    /\ intervals' = ClearInterval(intervals, gen)
    /\ timers' = ClearTimeout(timers, query)
    /\ UNCHANGED <<filters, top10, asof, loading, error, reqs, gen, quoteVars,
                   query, results, isOpen, sLoading, lookups, sinceChange, burst>>
    /\ UNCHANGED themeVars

\* The screen rendered for the first time with filters f, before its effects.
InitScreen(f) ==
    /\ phase = "init"
    /\ filters = f
    /\ top10 = << >>
    /\ asof = NoAsof
    /\ loading = FALSE
    /\ error = NULL
    /\ selectedQuote = None
    /\ reqs = << >>
    /\ intervals = {}
    /\ gen = 1
    /\ quotes = << >>
    /\ query = ""
    /\ results = << >>
    /\ isOpen = FALSE
    /\ sLoading = FALSE
    /\ timers = {}
    /\ lookups = << >>
    /\ sinceChange = DEBOUNCE_MS
    /\ burst = 0

\* The theme script in a first visit: no attribute, nothing stored.
FirstVisit ==
    /\ dataTheme = None
    /\ stored = None
    /\ writes = << >>
    /\ loaded = FALSE

Init == InitScreen(InitialFilters) /\ FirstVisit

\* The ranked list: filters, manual refresh, the interval timer, responses.
NextHome ==
    \/ MountEffects
    \/ \E e \in FilterEdits : FilterChange(e[1], e[2])
    \/ ClickRefresh
    \/ \E t \in intervals : IntervalFire(t)
    \/ \E i \in 1..Len(reqs) : Top10Resolve(i)
    \/ \E i \in 1..Len(reqs), net \in FailKinds : Top10Reject(i, net)
    \/ Unmount

\* The search bar and the quote of the selected symbol.
NextSearch ==
    \/ MountEffects
    \/ \E text \in Texts : QueryChange(text)
    \/ Tick
    \/ \E t \in timers : TimerFire(t)
    \/ \E i \in 1..Len(lookups), n \in HitCounts : LookupResolve(i, n)
    \/ \E i \in 1..Len(lookups), net \in FailKinds : LookupReject(i, net)
    \/ Focus
    \/ \E k \in 1..Len(results) : handleSelect(k)

\* The quote of the selected symbol.
NextQuote ==
    \/ \E i \in 1..Len(quotes) : QuoteResolve(i)
    \/ \E i \in 1..Len(quotes), net \in FailKinds : QuoteReject(i, net)
    \/ CloseCard

Next == NextHome \/ NextSearch \/ NextQuote

\* Every behaviour of the screen.
Spec == Init /\ [][Next]_vars
\* The behaviours in which only the ranked list acts.
SpecHome == Init /\ [][NextHome]_vars
\* The behaviours of the mounted screen in which only the search bar acts
\* (the ranked-list request of the mount and the quote requests stay in
\* flight; no search action reads the ranked-list state or the quote state).
SpecSearch == Init /\ [][NextSearch]_vars

\* The selection of a symbol and its quote: one text is typed, its lookup
\* answers with two symbols, rows are selected, and the quote requests end.
NextSelect ==
    \/ MountEffects
    \/ \E i \in 1..Len(reqs) : Top10Resolve(i)
    \/ QueryChange("A")
    \/ Tick
    \/ \E t \in timers : TimerFire(t)
    \/ \E i \in 1..Len(lookups) : LookupResolve(i, 2)
    \/ Focus
    \/ \E k \in 1..Len(results) : handleSelect(k)
    \/ NextQuote

\* The behaviours in which a symbol is searched, selected and quoted.
SpecSelect == Init /\ [][NextSelect]_vars

----------------------------------------------------------------------------
(* The theme script *)

Themes == {"light", "dark"}

\* The data-theme attribute a freshly parsed document can carry (the markup
\* is not part of the script): none, or one of the themes.
HtmlThemes == {None} \cup {Some(t) : t \in Themes}

\* What localStorage can hold for 'theme' when a visit starts: nothing, or
\* what an earlier visit stored.
StoredThemes == {None} \cup {Some(t) : t \in Themes}

\* A setTheme that does not store the theme.
setTheme_NoStore(theme) ==
    /\ dataTheme' = Some(theme)
    /\ UNCHANGED <<stored, writes>>

\* setTheme(theme): html.setAttribute('data-theme', theme);
\* localStorage.setItem('theme', theme).
setTheme(theme) ==
    /\ dataTheme' = Some(theme)
    /\ stored' = Some(theme)
    /\ writes' = Append(writes, theme)

\* The click listener of the theme switcher; it is attached when the script
\* runs, before DOMContentLoaded.
ThemeClick ==
    /\ Len(writes) < MaxWrites
    /\ setTheme(IF dataTheme = Some("dark") THEN "light" ELSE "dark")
    /\ UNCHANGED <<loaded, screenVars>>

\* The DOMContentLoaded listener: localStorage.getItem('theme') || 'light'.
DOMContentLoaded ==
    /\ ~loaded
    /\ Len(writes) < MaxWrites
    /\ LET savedTheme == IF IsSet(stored) /\ Val(stored) # ""
                         THEN Val(stored) ELSE "light"
       IN setTheme(savedTheme)
    /\ loaded' = TRUE
    /\ UNCHANGED screenVars

\* A full reload: a fresh document and a fresh run of the script;
\* localStorage is kept.
Reload ==
    /\ loaded' = FALSE
    /\ dataTheme' \in HtmlThemes
    /\ UNCHANGED <<stored, writes, screenVars>>

\* A visit starts: the document is parsed and the script has run.
InitTheme ==
    /\ InitScreen(InitialFilters)
    /\ dataTheme \in HtmlThemes
    /\ stored \in StoredThemes
    /\ writes = << >>
    /\ loaded = FALSE

NextTheme ==
    \/ ThemeClick
    \/ DOMContentLoaded
    \/ Reload

\* The behaviours of the theme script.
SpecTheme == InitTheme /\ [][NextTheme]_vars

----------------------------------------------------------------------------
(* The screen for every FilterState *)

\* The values a field of Top10Params takes in this model: undefined, and for
\* a number 0 and one other value (fractions in percent), with a
\* negative account size as the number input accepts one.
FieldValues(k) ==
    CASE k = "market"       -> {None, Some("ALL"), Some("KOSPI"), Some("KOSDAQ")}
      [] k = "sort_by"      -> {None, Some("value"), Some("weighted")}
      [] k = "account_size" -> {None, Some(-10000000), Some(0), Some(10000000)}
      [] k = "risk_pct"     -> {None, Some(0), Some(1)}
      [] k = "stop_pct"     -> {None, Some(0), Some(3)}
      [] k = "cap_pct"      -> {None, Some(0), Some(10)}
      [] k = "min_price"    -> {None, Some(0), Some(1000)}
      [] k = "max_price"    -> {None, Some(0), Some(100000)}
      [] OTHER              -> {None, Some(0), Some(100)}

\* Every Top10Params over these values.
FilterStates ==
    [market : FieldValues("market"), min_value : FieldValues("min_value"),
     min_chg_pct : FieldValues("min_chg_pct"), max_chg_pct : FieldValues("max_chg_pct"),
     min_price : FieldValues("min_price"), max_price : FieldValues("max_price"),
     sort_by : FieldValues("sort_by"), account_size : FieldValues("account_size"),
     risk_pct : FieldValues("risk_pct"), stop_pct : FieldValues("stop_pct"),
     cap_pct : FieldValues("cap_pct")]

\* The screen before its first effects, with the FilterState the panels have
\* been brought to.
InitFilters == (\E f \in FilterStates : InitScreen(f)) /\ FirstVisit

\* The ranking request of a FilterState and its response.
NextFilters ==
    \/ MountEffects
    \/ \E i \in 1..Len(reqs) : Top10Resolve(i)

\* The behaviours that build and answer the request of each FilterState.
SpecFilters == InitFilters /\ [][NextFilters]_vars

----------------------------------------------------------------------------
(* The ranked list: claims *)

Latest == Len(reqs)
\* The i-th request completes (resolves or rejects) in this step.
Completes(i) == Pending(i) /\ reqs'[i].st # "pending"
\* This step issues a request with trigger trig.
Issues(trig) == Len(reqs') = Len(reqs) + 1 /\ reqs'[Len(reqs')].trig = trig

\* C1: latest wins.  Once the last two requests A and B (B issued for a
\* different query) have both completed and nothing is in flight, the
\* displayed items and asof are those of B's response.
C1_LatestWins ==
    (/\ phase = "mounted"
     /\ Latest >= 2
     /\ InFlight = {}
     /\ reqs[Latest].query # reqs[Latest - 1].query
     /\ reqs[Latest].st = "ok")
    => (top10 = reqs[Latest].resp.items /\ asof = reqs[Latest].resp.asof)

\* C2: the response, success or failure, of a request that a later trigger
\* superseded changes none of items, asof, error and loading.
C2_StaleDiscarded ==
    [][\A i \in 1..Len(reqs) :
          (Completes(i) /\ i < Latest) => UNCHANGED <<top10, asof, error, loading>>]_vars

\* C3: a filter change that writes back a FilterState with the same derived
\* query, while the request for that query is loading or is the one last
\* applied, issues no request and makes no loading transition.
C3_Idempotent ==
    [][(/\ gen' # gen
        /\ QueryOf(filters') = QueryOf(filters)
        /\ reqs[Latest].query = QueryOf(filters)
        /\ \/ Pending(Latest)
           \/ reqs[Latest].st = "ok" /\ asof = reqs[Latest].resp.asof)
       => (reqs' = reqs /\ loading' = loading)]_vars

\* C4: after the screen is unmounted no request is issued by the timer.
C4_NoTimerFetchAfterUnmount ==
    [][phase = "unmounted" => ~Issues("timer")]_vars

\* C4 witness: the timer fired while mounted, the screen is unmounted, and a
\* further request could still be issued.
C4_Witness ==
    /\ phase = "unmounted"
    /\ Latest < MaxReq
    /\ \E i \in 1..Latest : reqs[i].trig = "timer"

\* C5 as stated: in every fetch status of the mounted screen, loading
\* included, a manual refresh issues a request.
C5_RefreshInEveryStatus ==
    (phase = "mounted" /\ Latest < MaxReq) => ENABLED ClickRefresh

\* C5 amended: whenever loading is false a manual refresh is possible, also
\* while the same query is in flight or was the last applied; and a manual
\* refresh issues exactly one request, built from the current FilterState,
\* and sets loading and clears the error.
C5_RefreshWhenNotLoading ==
    [][/\ (phase = "mounted" /\ ~loading /\ Latest < MaxReq) => ENABLED ClickRefresh
       /\ Issues("manual") =>
            /\ ~loading
            /\ reqs' = Append(reqs, [params |-> filters, query |-> QueryOf(filters),
                                     trig |-> "manual", st |-> "pending", resp |-> NoResp])
            /\ loading' /\ error' = NULL]_vars

\* C5 witness: a manual refresh was issued while a request for the same
\* query was still in flight.
C5_Witness ==
    /\ phase = "mounted"
    /\ Latest >= 2
    /\ reqs[Latest].trig = "manual"
    /\ \E i \in 1..(Latest - 1) : Pending(i) /\ reqs[i].query = reqs[Latest].query

----------------------------------------------------------------------------
(* The search bar: claims *)

\* This step issues a lookup request.
IssuesLookup == Len(lookups') > Len(lookups)

\* C7: debounce.  At most one timer is pending, it is for the current text
\* and is due DEBOUNCE_MS after the last change; a change to a non-empty
\* text issues no request, cancels the pending timer and starts a new one;
\* a request is issued only when the timer is due, DEBOUNCE_MS after the
\* last change, once, for the current (final) text; and a due timer can
\* always issue its request.
C7_Debounce ==
    [][/\ Cardinality(timers) <= 1
       /\ \A t \in timers : t.q = query /\ t.left + sinceChange = DEBOUNCE_MS
       /\ (query' # query /\ query' # "") =>
            /\ ~IssuesLookup
            /\ timers' = {[q |-> query', left |-> DEBOUNCE_MS]}
       /\ IssuesLookup =>
            /\ sinceChange = DEBOUNCE_MS
            /\ lookups' = Append(lookups, [q |-> query, st |-> "pending", hits |-> 0])
            /\ timers' = {}
       /\ (\E t \in timers : t.left = 0) => ENABLED (\E t \in timers : TimerFire(t))]_vars

\* C7 witness: a burst of at least two changes ended, and its one lookup,
\* for the final text, has just been issued.
C7_Witness ==
    /\ burst >= 2
    /\ timers = {}
    /\ sinceChange = DEBOUNCE_MS
    /\ Len(lookups) = 1
    /\ lookups[1].q = query /\ lookups[1].st = "pending"

\* C8: a lookup response that arrives after the query text has changed
\* (cleared included) does not replace the results and does not open the
\* list.
C8_StaleLookupIgnored ==
    [][\A i \in 1..Len(lookups) :
          (/\ lookups[i].st = "pending"
           /\ lookups'[i].st = "ok"
           /\ lookups[i].q # query)
          => (results' = results /\ isOpen' = isOpen)]_vars

\* C9 as stated: when the text becomes empty, results become empty, the
\* open flag becomes false and no lookup is issued.
C9_ClearClosesFlag ==
    [][(query # "" /\ query' = "") =>
          (results' = << >> /\ isOpen' = FALSE /\ ~IssuesLookup)]_vars

\* C9 amended: when the text becomes empty, results become empty in the same
\* step, so the list is no longer rendered; the open flag is left as it was;
\* no lookup is issued and the pending timer is cancelled.
C9_ClearEmptiesResults ==
    [][(query # "" /\ query' = "") =>
          /\ results' = << >>
          /\ ~ListShown'
          /\ isOpen' = isOpen
          /\ ~IssuesLookup
          /\ timers' = {}]_vars

\* C9 witness: the text has just been cleared while the list was open; the
\* results are empty and the open flag is still true.
C9_Witness ==
    /\ query = ""
    /\ sinceChange = 0
    /\ results = << >>
    /\ isOpen
    /\ Len(lookups) >= 1

\* This step is a selection: it closes the list or starts a quote request.
SelectStep == (isOpen /\ ~isOpen') \/ Len(quotes') > Len(quotes)

\* C10: selecting a row of the rendered list closes the list and starts
\* exactly one quote request, for the code of that row's symbol.
C10_Select ==
    [][SelectStep =>
          /\ ListShown
          /\ isOpen' = FALSE
          /\ \E k \in 1..Len(results) :
                /\ query' = SelectedText(results[k])
                /\ quotes' = Append(quotes, [code |-> results[k].code,
                                             st |-> "pending"])]_vars

\* C10 witness: the last row of a list of several results was selected: the
\* list is closed and the quote request for its code is in flight.
C10_Witness ==
    /\ ~isOpen
    /\ Len(results) >= 2
    /\ Len(quotes) >= 1
    /\ quotes[Len(quotes)] = [code |-> results[Len(results)].code, st |-> "pending"]
    /\ query = SelectedText(results[Len(results)])

\* C11: a symbol lookup that fails leaves the results list and the open flag
\* as they were, and the failure reaches nothing outside the search bar: the
\* query text, the screen's phase, the ranked list and the quote are as they
\* were (only the search bar's own loading flag is reset).
C11_FailedLookupKeepsState ==
    [][\A i \in 1..Len(lookups) :
          (lookups[i].st = "pending" /\ lookups'[i].st = "rejected")
          => /\ results' = results
             /\ isOpen' = isOpen
             /\ query' = query
             /\ phase' = phase
             /\ UNCHANGED <<homeVars, quoteVars>>]_vars

\* A lookup has failed while the list of an earlier lookup is shown.
C11_Witness ==
    /\ \E i \in 1..Len(lookups) : lookups[i].st = "rejected"
    /\ Len(results) > 0
    /\ isOpen

----------------------------------------------------------------------------
(* The ranking query: claims *)

\* C12: no ranking request built from a FilterState whose market is ALL has
\* a market parameter in its query.
C12_AllMarketOmitted ==
    \A i \in 1..Len(reqs) :
        reqs[i].params["market"] = Some("ALL") => "market" \notin DOMAIN reqs[i].query

\* C13: in the query of every ranking request, each optional field other
\* than market is present exactly when it is set in the FilterState the
\* request was built from, a set value of 0 included, and a present field
\* carries the value set (never a default in place of an unset field).
C13_FieldsIffSet ==
    \A i \in 1..Len(reqs) :
        \A k \in Keys \ {"market"} :
            /\ (k \in DOMAIN reqs[i].query) <=> (reqs[i].params[k] # << >>)
            /\ (k \in DOMAIN reqs[i].query) => <<reqs[i].query[k]>> = reqs[i].params[k]

\* A request was built from a FilterState with a field set to 0, a field set
\* to another value and unset fields.
C13_Witness ==
    \E i \in 1..Len(reqs) :
        /\ reqs[i].params["min_value"] = <<0>>
        /\ reqs[i].params["account_size"] = <<10000000>>
        /\ reqs[i].params["max_price"] = << >>
        /\ reqs[i].params["sort_by"] = << >>
        /\ "min_value" \in DOMAIN reqs[i].query

----------------------------------------------------------------------------
(* The risk view: claims *)

\* C14: in every reachable state the risk view is enabled exactly when the
\* account size is set and greater than 0, and the sizing columns are shown
\* only then.
C14_RiskViewIffPositiveAccount ==
    LET a == filters["account_size"] IN
        /\ showRisk <=> (a # << >> /\ a[1] > 0)
        /\ RiskColumnsShown => (a # << >> /\ a[1] > 0)

\* The table shows the sizing columns for a positive account size.
C14_Witness ==
    /\ RiskColumnsShown
    /\ filters["account_size"] = <<10000000>>
    /\ Len(top10) > 0

\* C15: the sizing figures computed on the screen are absent when the
\* account size is unset or not greater than 0, and a figure that is
\* produced is never negative.
C15_PreviewAbsentOrNonNegative ==
    LET a == filters["account_size"] IN
        \A f \in {AllowedLossPreview(filters), MaxInvestmentPreview(filters)} :
            /\ (a = << >> \/ a[1] <= 0) => f = << >>
            /\ f # << >> => f[1] >= 0

\* The sizing formula as the claim C16 states it, for entry price e and the
\* sizing inputs of p (all set and positive).
C16_Min(a, b) == IF a < b THEN a ELSE b
C16_MaxShares(e, p) ==
    C16_Min((p["account_size"][1] * p["risk_pct"][1]) \div (e * p["stop_pct"][1]),
            (p["account_size"][1] * p["cap_pct"][1]) \div (e * SCALE))
C16_MaxInvestment(e, p) == C16_MaxShares(e, p) * e

\* C16: the sizing figures computed on the screen follow the formula
\* max_shares = min(floor(account * risk / (entry * stop)),
\*                  floor(account * cap / entry)),
\* max_investment = max_shares * entry, with allowed_loss = account * risk,
\* for the entry price of every ranked row.
C16_LocalSizingFormula ==
    \A e \in EntryPrices :
        (\A k \in {"account_size", "risk_pct", "stop_pct", "cap_pct"} :
            filters[k] # << >> /\ filters[k][1] > 0)
        => /\ AllowedLossPreview(filters) =
                <<(filters["account_size"][1] * filters["risk_pct"][1]) \div SCALE>>
           /\ MaxInvestmentPreview(filters) = <<C16_MaxInvestment(e, filters)>>

----------------------------------------------------------------------------
(* The theme script: claims *)

\* C17: every toggle applies the other theme and writes it to storage; the
\* theme applied when a document loads is the last theme set before, and
\* light when nothing is stored; applying on load the theme that is already
\* applied and stored changes neither the attribute nor the stored value.
C17_ThemePersistence ==
    [][/\ (Len(writes') > Len(writes) /\ loaded' = loaded)
          => /\ dataTheme' # dataTheme
             /\ dataTheme' \in {<<"light">>, <<"dark">>}
             /\ stored' = dataTheme'
             /\ writes'[Len(writes')] = dataTheme'[1]
       /\ (~loaded /\ loaded')
          => /\ writes # << >> => dataTheme' = <<writes[Len(writes)]>>
             /\ stored = << >> => dataTheme' = <<"light">>
             /\ stored # << >> => dataTheme' = stored
             /\ stored' = dataTheme'
             /\ (stored # << >> /\ dataTheme = stored)
                => (dataTheme' = dataTheme /\ stored' = stored)]_vars

\* A first load with nothing stored applied light, a toggle set dark, and a
\* later load applied dark again.
C17_Witness ==
    /\ writes = <<"light", "dark", "dark">>
    /\ loaded
    /\ dataTheme = <<"dark">>
    /\ stored = <<"dark">>

----------------------------------------------------------------------------
(* The search bar: claims, continued *)

\* C18: when a lookup completes successfully the results become exactly the
\* first 10 entries of its response, in the response's order (all of them
\* when it has fewer); the results never hold more than 10 entries and are
\* always empty or the leading entries of one single response.
C18_FirstTenOfResponse ==
    [][/\ \A i \in 1..Len(lookups) :
            (lookups[i].st = "pending" /\ lookups'[i].st = "ok" /\ phase = "mounted")
            => LET resp == SymbolsResponse(lookups[i].q, lookups'[i].hits)
                   m == IF Len(resp) < 10 THEN Len(resp) ELSE 10
               IN /\ Len(results') = m
                  /\ \A k \in 1..m : results'[k] = resp[k]
       /\ Len(results') <= 10
       /\ \/ results' = << >>
          \/ \E i \in 1..Len(lookups') :
                /\ lookups'[i].st = "ok"
                /\ Len(results') <= lookups'[i].hits
                /\ \A k \in 1..Len(results') :
                      results'[k] = SymbolsResponse(lookups'[i].q, lookups'[i].hits)[k]]_vars

\* A response of 11 symbols was applied: the results are its first 10.
C18_Witness ==
    /\ Len(results) = 10
    /\ \E i \in 1..Len(lookups) : lookups[i].st = "ok" /\ lookups[i].hits = 11

----------------------------------------------------------------------------
(* The ranked list: claims, continued *)

\* C19: a failed fetch ends that attempt only.  A trigger (filter change,
\* manual refresh or timer) in status error issues a request, moves the
\* status to loading and clears the error; a request that then succeeds
\* replaces the items and as_of with those of its response.
C19_ErrorIsNotTerminal ==
    [][/\ (Status = "error" /\ phase = "mounted" /\ Len(reqs') = Len(reqs) + 1)
          => (loading' /\ error' = NULL)
       /\ \A i \in 1..Len(reqs) :
            (reqs[i].st = "pending" /\ reqs'[i].st = "ok" /\ phase = "mounted")
            => /\ top10' = reqs'[i].resp.items
               /\ asof' = reqs'[i].resp.asof
               /\ ~loading']_vars

\* The first request failed, a manual refresh in status error issued the
\* second, and its response was applied.
C19_Witness ==
    /\ Len(reqs) = 2
    /\ reqs[1].st \in FailKinds
    /\ reqs[2].trig = "manual"
    /\ reqs[2].st = "ok"
    /\ Status = "success"
    /\ error = NULL
    /\ top10 = reqs[2].resp.items
    /\ Len(top10) > 0

----------------------------------------------------------------------------
(* The quote of the selected symbol: claims *)

\* C20: a quote request that fails changes nothing: the selected quote, the
\* search state and the ranked-list state are after the failure what they
\* were before it.
C20_FailedQuoteChangesNothing ==
    [][\A i \in 1..Len(quotes) :
          (quotes[i].st = "pending" /\ quotes'[i].st = "rejected")
          => /\ selectedQuote' = selectedQuote
             /\ phase' = phase
             /\ UNCHANGED <<searchVars, homeVars>>]_vars

\* A quote request has failed while the quote of an earlier selection and
\* the ranked list are shown.
C20_Witness ==
    /\ \E i \in 1..Len(quotes) : quotes[i].st = "rejected"
    /\ selectedQuote # << >>
    /\ Len(top10) > 0

----------------------------------------------------------------------------
(* The ranked list: claims on overlapping requests *)

\* C21: while the screen is mounted the loading flag is true exactly when
\* at least one ranking request is in flight; the completion of one of two
\* overlapping requests does not turn loading off while the other is pending.
C21_LoadingIffInFlight ==
    phase = "mounted" =>
        (loading <=> (\E i \in 1..Len(reqs) : reqs[i].st = "pending"))

\* C22: while the screen is mounted, when no ranking request is in flight a
\* recorded error message implies an empty items list, and the error banner
\* is never rendered together with the table of a non-empty ranked list.
C22_ErrorImpliesEmptyList ==
    phase = "mounted" =>
        /\ ((\A i \in 1..Len(reqs) : reqs[i].st # "pending") /\ error # NULL)
           => Len(top10) = 0
        /\ ~(ErrorBannerShown /\ TableRegion = "table")

\* C23: while the screen is mounted at most one periodic timer is armed,
\* it holds the current FilterState, and the request a firing timer issues
\* is built from the FilterState current at that moment.
C23_OneTimerCurrentFilters ==
    [][/\ phase' = "mounted"
          => /\ Cardinality(intervals') <= 1
             /\ \A t \in intervals' : t.params = filters'
       /\ (phase = "mounted" /\ Issues("timer"))
          => /\ reqs'[Len(reqs')].params = filters
             /\ reqs'[Len(reqs')].query = QueryOf(filters)]_vars

\* After a change of the market to KOSPI the timer fired and its request
\* carries that market.
C23_Witness ==
    /\ phase = "mounted"
    /\ gen > 1
    /\ Cardinality(intervals) = 1
    /\ filters["market"] = <<"KOSPI">>
    /\ \E i \in 1..Len(reqs) :
          reqs[i].trig = "timer" /\ reqs[i].params["market"] = <<"KOSPI">>

----------------------------------------------------------------------------
(* The search bar: claims on selection *)

\* C24: the text a selection writes into the input does not go through the
\* debounce: no lookup is issued for the text of a selected row, and no
\* response to such a lookup opens the list that the selection closed.
C24_SelectionIssuesNoLookup ==
    [][/\ IssuesLookup
          => ~(\E k \in 1..Len(results) :
                  lookups'[Len(lookups')].q = SelectedText(results[k]))
       /\ \A i \in 1..Len(lookups) :
            (lookups[i].st = "pending" /\ lookups'[i].st = "ok" /\ ~isOpen /\ isOpen')
            => ~(\E k \in 1..Len(results) : lookups[i].q = SelectedText(results[k]))]_vars

----------------------------------------------------------------------------
(* The quote of the selected symbol: claims on overlapping requests *)

\* C25: once every quote request has completed and the request of the most
\* recent selection succeeded, a displayed quote is the quote of that most
\* recently selected symbol, whatever the order of the completions.
C25_QuoteLatestWins ==
    (/\ phase = "mounted"
     /\ Len(quotes) >= 1
     /\ \A i \in 1..Len(quotes) : quotes[i].st # "pending"
     /\ quotes[Len(quotes)].st = "ok"
     /\ selectedQuote # << >>)
    => selectedQuote = <<QuoteOf(quotes[Len(quotes)].code)>>

====
